---------------------------- MODULE Spec2Model ----------------------------
(***************************************************************************)
(* ZeroEnv (ropeadope62/zeroenv): the encrypted secrets store.             *)
(*                                                                         *)
(*   src/src/zeroenv/crypto.py   ZeroEnvCrypto: AES-256-GCM, PBKDF2 tiers  *)
(*   src/src/zeroenv/storage.py  SecretsStorage: .secrets and .secrets.key *)
(*   src/src/zeroenv/cli.py      the commands init/add/get/ls/rm/export/.. *)
(*                                                                         *)
(* Data representation.                                                    *)
(*   bytes          a sequence of integers 0..255                          *)
(*   str            a sequence of code points                              *)
(*   base64 text    a sequence of alphabet indices 0..63, B64Pad for '=',  *)
(*                  B64Newline for a whitespace character                  *)
(*   Optional[x]    <<>> for None / a missing dict key, <<x>> otherwise    *)
(*   dict (secrets) a sequence of entries in insertion order, as Python    *)
(*                  dicts and json keep them                               *)
(*   an exception   the field err of a result, "" when none was raised     *)
(*   v = f(..)      Bind(f(..), LAMBDA v : ..): the value is computed once *)
(*                  and named, as the assignment of the source does        *)
(***************************************************************************)
EXTENDS Integers, Sequences, FiniteSets, TLC

(***************************************************************************)
(* Program constants (crypto.py).                                          *)
(***************************************************************************)
KEY_SIZE == 32
NONCE_SIZE == 12
SALT_SIZE == 16
TAG_SIZE == 16
ITER_STANDARD == 0
ITER_ENHANCED == 100000
ITER_MAX == 500000

\* SECURITY_TIERS: the dict's keys, and the iterations of each.
SECURITY_TIERS == {"standard", "enhanced", "max"}

\* SECURITY_TIERS with the iteration count of "enhanced" under "max" too.
tier_iterations_flat(tier) ==
    CASE tier = "standard" -> ITER_STANDARD
      [] tier = "enhanced" -> ITER_ENHANCED
      [] tier = "max"      -> ITER_ENHANCED
      [] OTHER             -> 0

tier_iterations(tier) ==
    CASE tier = "standard" -> ITER_STANDARD
      [] tier = "enhanced" -> ITER_ENHANCED
      [] tier = "max"      -> ITER_MAX
      [] OTHER             -> 0

(***************************************************************************)
(* Bounds of the model.                                                    *)
(***************************************************************************)
\* Secret names the commands are run with.
Names == {"API_KEY", "DB_URL"}

\* Plaintext values, the first NumValues of: "v" (one ASCII character),
\* U+00E9 (two UTF-8 bytes), the empty string, U+20AC (three UTF-8 bytes).
NumValues == 2
SampleValues == <<(<<118>>), (<<233>>), (<<>>), (<<8364>>)>>
Values == {SampleValues[i] : i \in 1..NumValues}

\* The coefficients of the byte strings os.urandom is taken to return.
UrandomSeeds == {<<7, 3>>, <<11, 200>>}

(***************************************************************************)
(* Generic helpers.                                                        *)
(***************************************************************************)
None == <<>>
Some(x) == <<x>>
IsNone(o) == Len(o) = 0

\* F applied to the value of x.
Bind(x, F(_)) == CHOOSE r \in {F(v) : v \in {x}} : TRUE

\* A sequence given as a function, as a tuple of its elements.
Tup(f) == <<>> \o f

RECURSIVE SumSeq(_)
SumSeq(s) == IF Len(s) = 0 THEN 0 ELSE Head(s) + SumSeq(Tail(s))

\* os.urandom(n): any byte string of length n; the model draws from a few.
urandom(n) ==
    { Tup([i \in 1..n |-> ((sd[1] * i) + sd[2]) % 256]) : sd \in UrandomSeeds }

(***************************************************************************)
(* base64 (the standard library, as crypto.py uses it).                    *)
(***************************************************************************)
B64Pad == 64
B64Newline == 65

\* base64.b64encode(b).decode('utf-8')
b64encode(bytes) ==
    Bind(bytes, LAMBDA b :
        LET n == Len(b)
            at(k) == IF k <= n THEN b[k] ELSE 0
        IN  Tup([i \in 1..(4 * ((n + 2) \div 3)) |->
                LET g == (i - 1) \div 4
                    j == (i - 1) % 4
                IN  CASE j = 0 -> at(3*g + 1) \div 4
                      [] j = 1 -> ((at(3*g + 1) % 4) * 16) + (at(3*g + 2) \div 16)
                      [] j = 2 -> IF 3*g + 2 > n THEN B64Pad
                                  ELSE ((at(3*g + 2) % 16) * 4) + (at(3*g + 3) \div 64)
                      [] OTHER -> IF 3*g + 3 > n THEN B64Pad
                                  ELSE at(3*g + 3) % 64]))

\* binascii.a2b_base64 in its default (non-strict) mode: characters outside
\* the alphabet are skipped, a completed padding ends the input, and data
\* that stops inside a quad is an error.
RECURSIVE a2b_scan(_, _, _, _, _, _)
a2b_scan(s, i, quad, pads, left, acc) ==
    IF i > Len(s)
    THEN IF quad = 0 THEN [err |-> "", bytes |-> acc]
         ELSE [err |-> "binascii.Error", bytes |-> <<>>]
    ELSE LET c == s[i] IN
         IF c = B64Pad
         THEN IF quad >= 2 /\ quad + pads + 1 >= 4
              THEN [err |-> "", bytes |-> acc]
              ELSE a2b_scan(s, i + 1, quad,
                            IF quad >= 2 THEN pads + 1 ELSE pads, left, acc)
         ELSE IF c > B64Pad
         THEN a2b_scan(s, i + 1, quad, pads, left, acc)
         ELSE CASE quad = 0 -> a2b_scan(s, i + 1, 1, 0, c, acc)
                [] quad = 1 -> a2b_scan(s, i + 1, 2, 0, c % 16,
                                        Append(acc, (left * 4) + (c \div 16)))
                [] quad = 2 -> a2b_scan(s, i + 1, 3, 0, c % 4,
                                        Append(acc, (left * 16) + (c \div 4)))
                [] OTHER    -> a2b_scan(s, i + 1, 0, 0, 0,
                                        Append(acc, (left * 64) + c))

\* Text as b64encode writes it: whole quads, padding only at the very end.
b64_wellformed(s) ==
    /\ Len(s) % 4 = 0
    /\ \A i \in 1..Len(s) :
          \/ s[i] < B64Pad
          \/ /\ s[i] = B64Pad
             /\ i >= Len(s) - 1
             /\ s[Len(s)] = B64Pad

\* The bytes of well-formed text, quad by quad (what a2b_scan returns for it).
b64_quads(s) ==
    LET pads == (IF Len(s) > 0 /\ s[Len(s)] = B64Pad THEN 1 ELSE 0)
                + (IF Len(s) > 1 /\ s[Len(s) - 1] = B64Pad THEN 1 ELSE 0)
        ch(k) == IF s[k] = B64Pad THEN 0 ELSE s[k]
    IN  Tup([k \in 1..((3 * (Len(s) \div 4)) - pads) |->
            LET g == (k - 1) \div 3
                j == (k - 1) % 3
            IN  CASE j = 0 -> (ch(4*g + 1) * 4) + (ch(4*g + 2) \div 16)
                  [] j = 1 -> ((ch(4*g + 2) % 16) * 16) + (ch(4*g + 3) \div 4)
                  [] OTHER -> ((ch(4*g + 3) % 4) * 64) + ch(4*g + 4)])

\* base64.b64decode(s)
b64decode(text) ==
    Bind(text, LAMBDA s :
        IF b64_wellformed(s) THEN [err |-> "", bytes |-> b64_quads(s)]
        ELSE a2b_scan(s, 1, 0, 0, 0, <<>>))

\* str.strip(): leading and trailing whitespace removed.
RECURSIVE lstrip(_)
lstrip(s) == IF Len(s) > 0 /\ Head(s) = B64Newline THEN lstrip(Tail(s)) ELSE s

RECURSIVE rstrip(_)
rstrip(s) ==
    IF Len(s) > 0 /\ s[Len(s)] = B64Newline
    THEN rstrip(SubSeq(s, 1, Len(s) - 1)) ELSE s

strip(s) == rstrip(lstrip(s))

(***************************************************************************)
(* UTF-8: str.encode('utf-8') and bytes.decode('utf-8').                   *)
(***************************************************************************)
utf8_char(cp) ==
    CASE cp < 128   -> <<cp>>
      [] cp < 2048  -> <<192 + (cp \div 64), 128 + (cp % 64)>>
      [] cp < 65536 -> <<224 + (cp \div 4096), 128 + ((cp \div 64) % 64),
                         128 + (cp % 64)>>
      [] OTHER      -> <<240 + (cp \div 262144), 128 + ((cp \div 4096) % 64),
                         128 + ((cp \div 64) % 64), 128 + (cp % 64)>>

IsSurrogate(cp) == cp >= 55296 /\ cp <= 57343

RECURSIVE utf8_concat(_)
utf8_concat(s) ==
    IF Len(s) = 0 THEN <<>> ELSE utf8_char(Head(s)) \o utf8_concat(Tail(s))

\* plaintext.encode('utf-8'): a lone surrogate raises UnicodeEncodeError.
utf8_encode(s) ==
    IF \E i \in 1..Len(s) : IsSurrogate(s[i])
    THEN [err |-> "UnicodeEncodeError", bytes |-> <<>>]
    ELSE [err |-> "", bytes |-> utf8_concat(s)]

IsCont(b, k) == k <= Len(b) /\ b[k] >= 128 /\ b[k] < 192

\* plaintext.decode('utf-8') (strict): overlong forms, surrogates, stray
\* continuation bytes and truncated sequences raise UnicodeDecodeError.
RECURSIVE utf8_scan(_, _, _)
utf8_scan(b, i, acc) ==
    IF i > Len(b) THEN [err |-> "", str |-> acc]
    ELSE LET c == b[i]
             bad == [err |-> "UnicodeDecodeError", str |-> <<>>]
         IN
         CASE c < 128 -> utf8_scan(b, i + 1, Append(acc, c))
           [] c >= 194 /\ c < 224 /\ IsCont(b, i + 1) ->
                utf8_scan(b, i + 2, Append(acc, ((c - 192) * 64) + (b[i+1] - 128)))
           [] c >= 224 /\ c < 240 /\ IsCont(b, i + 1) /\ IsCont(b, i + 2) ->
                LET cp == ((c - 224) * 4096) + ((b[i+1] - 128) * 64) + (b[i+2] - 128)
                IN  IF cp < 2048 \/ IsSurrogate(cp) THEN bad
                    ELSE utf8_scan(b, i + 3, Append(acc, cp))
           [] c >= 240 /\ c < 245 /\ IsCont(b, i + 1) /\ IsCont(b, i + 2)
                       /\ IsCont(b, i + 3) ->
                LET cp == ((c - 240) * 262144) + ((b[i+1] - 128) * 4096)
                          + ((b[i+2] - 128) * 64) + (b[i+3] - 128)
                IN  IF cp < 65536 \/ cp > 1114111 THEN bad
                    ELSE utf8_scan(b, i + 4, Append(acc, cp))
           [] OTHER -> bad

utf8_decode(bytes) == Bind(bytes, LAMBDA b : utf8_scan(b, 1, <<>>))

(***************************************************************************)
(* The `cryptography` primitives crypto.py calls.  They are library code;  *)
(* the model gives them stand-ins with the same interface and the same     *)
(* error cases: a keyed byte mask and a TAG_SIZE-byte keyed tag over the   *)
(* nonce and the masked bytes for AESGCM, a keyed mix for PBKDF2HMAC.      *)
(***************************************************************************)
ByteAt(b, i) == IF Len(b) = 0 THEN 0 ELSE b[((i - 1) % Len(b)) + 1]

GcmMask(key, nonce, i) == (ByteAt(key, i) + ByteAt(nonce, i) + i) % 256

GcmTag(key, nonce, body) ==
    Bind(SumSeq(body), LAMBDA s0 :
    Bind(SumSeq([i \in 1..Len(body) |-> i * body[i]]), LAMBDA s1 :
        Tup([j \in 1..TAG_SIZE |->
            ( (3 * ByteAt(key, j)) + (5 * ByteAt(key, j + TAG_SIZE))
              + (7 * ByteAt(nonce, j)) + Len(body)
              + (((2 * j) + 1) * s0) + (2 * s1) ) % 256])))

\* AESGCM(key).encrypt(nonce, data, None): ciphertext with the tag appended.
AESGCM_encrypt(key, nonce, data) ==
    IF Len(nonce) < 8 \/ Len(nonce) > 128
    THEN [err |-> "ValueError", bytes |-> <<>>]
    ELSE Bind(Tup([i \in 1..Len(data) |->
                    (data[i] + GcmMask(key, nonce, i)) % 256]), LAMBDA body :
            [err |-> "", bytes |-> body \o GcmTag(key, nonce, body)])

\* AESGCM(key).decrypt(nonce, data, None): InvalidTag unless the tag verifies.
AESGCM_decrypt(key, nonce, data) ==
    IF Len(nonce) < 8 \/ Len(nonce) > 128
    THEN [err |-> "ValueError", bytes |-> <<>>]
    ELSE IF Len(data) < TAG_SIZE
    THEN [err |-> "InvalidTag", bytes |-> <<>>]
    ELSE Bind(SubSeq(data, 1, Len(data) - TAG_SIZE), LAMBDA body :
            IF SubSeq(data, Len(body) + 1, Len(data)) # GcmTag(key, nonce, body)
            THEN [err |-> "InvalidTag", bytes |-> <<>>]
            ELSE [err |-> "",
                  bytes |-> Tup([i \in 1..Len(body) |->
                                (body[i] + 256 - GcmMask(key, nonce, i)) % 256])])

\* PBKDF2HMAC(SHA256, length, salt, iterations).derive(password)
PBKDF2HMAC_derive(length, salt, iterations, password) ==
    Tup([i \in 1..length |->
        ( (31 * ByteAt(password, i)) + (17 * ByteAt(salt, i))
          + (13 * (iterations % 251)) + i ) % 256])

(***************************************************************************)
(* crypto.py: ZeroEnvCrypto.                                               *)
(***************************************************************************)
\* A constructor that takes a key of any length.
ZeroEnvCrypto_unchecked(master_key) == [err |-> "", key |-> master_key]

\* ZeroEnvCrypto.__init__: the object holds the AESGCM key.
ZeroEnvCrypto(master_key) ==
    IF Len(master_key) # KEY_SIZE
    THEN [err |-> "ValueError: Master key must be 32 bytes", key |-> <<>>]
    ELSE [err |-> "", key |-> master_key]

\* key_to_string that encodes whole groups of three bytes only.
key_to_string_whole_groups(key) ==
    b64encode(SubSeq(key, 1, Len(key) - (Len(key) % 3)))

\* ZeroEnvCrypto.key_to_string
key_to_string(key) == b64encode(key)

\* ZeroEnvCrypto.string_to_key
string_to_key(key_string) == b64decode(key_string)

\* ZeroEnvCrypto.generate_key, generate_master_key
generate_key == urandom(KEY_SIZE)
generate_master_key == generate_key

\* ZeroEnvCrypto.generate_salt
generate_salt == urandom(SALT_SIZE)

\* encrypt that seals under one fixed nonce whatever os.urandom returns.
encrypt_fixed_nonce(crypto, plaintext, nonce) ==
    Bind(Tup([i \in 1..NONCE_SIZE |-> 0]), LAMBDA fixed :
    Bind(utf8_encode(plaintext), LAMBDA data :
        IF data.err # ""
        THEN [err |-> data.err, ciphertext |-> <<>>, nonce |-> <<>>]
        ELSE Bind(AESGCM_encrypt(crypto.key, fixed, data.bytes), LAMBDA ct :
            [err |-> "", ciphertext |-> b64encode(ct.bytes),
             nonce |-> b64encode(fixed)])))

\* ZeroEnvCrypto.encrypt; nonce is the value os.urandom(NONCE_SIZE) returned.
encrypt(crypto, plaintext, nonce) ==
    Bind(utf8_encode(plaintext), LAMBDA data :
        IF data.err # ""
        THEN [err |-> data.err, ciphertext |-> <<>>, nonce |-> <<>>]
        ELSE Bind(AESGCM_encrypt(crypto.key, nonce, data.bytes), LAMBDA ct :
            IF ct.err # ""
            THEN [err |-> ct.err, ciphertext |-> <<>>, nonce |-> <<>>]
            ELSE [err |-> "", ciphertext |-> b64encode(ct.bytes),
                  nonce |-> b64encode(nonce)]))

\* decrypt that decodes the plaintext bytes as ASCII.
decrypt_ascii(crypto, encrypted_data) ==
    Bind(b64decode(encrypted_data.ciphertext), LAMBDA ciphertext :
        IF ciphertext.err # "" THEN [err |-> ciphertext.err, str |-> <<>>]
        ELSE Bind(b64decode(encrypted_data.nonce), LAMBDA nonce :
            IF nonce.err # "" THEN [err |-> nonce.err, str |-> <<>>]
            ELSE Bind(AESGCM_decrypt(crypto.key, nonce.bytes, ciphertext.bytes),
                      LAMBDA plaintext :
                IF plaintext.err # "" THEN [err |-> plaintext.err, str |-> <<>>]
                ELSE IF \E i \in 1..Len(plaintext.bytes) : plaintext.bytes[i] >= 128
                THEN [err |-> "UnicodeDecodeError", str |-> <<>>]
                ELSE [err |-> "", str |-> plaintext.bytes])))

\* ZeroEnvCrypto.decrypt: every failure is an exception, none is caught.
decrypt(crypto, encrypted_data) ==
    Bind(b64decode(encrypted_data.ciphertext), LAMBDA ciphertext :
        IF ciphertext.err # "" THEN [err |-> ciphertext.err, str |-> <<>>]
        ELSE Bind(b64decode(encrypted_data.nonce), LAMBDA nonce :
            IF nonce.err # "" THEN [err |-> nonce.err, str |-> <<>>]
            ELSE Bind(AESGCM_decrypt(crypto.key, nonce.bytes, ciphertext.bytes),
                      LAMBDA plaintext :
                IF plaintext.err # "" THEN [err |-> plaintext.err, str |-> <<>>]
                ELSE utf8_decode(plaintext.bytes))))

\* derive_key that stretches the master key under every tier.
derive_key_stretching(master_key, tier, salt) ==
    IF tier \notin SECURITY_TIERS
    THEN [err |-> "ValueError: Invalid security tier", key |-> <<>>]
    ELSE [err |-> "",
          key |-> PBKDF2HMAC_derive(KEY_SIZE, IF IsNone(salt) THEN <<>> ELSE salt[1],
                                    tier_iterations(tier), master_key)]

\* derive_key that uses the master key when the salt cannot be used.
derive_key_defaulting(master_key, tier, salt) ==
    IF tier \notin SECURITY_TIERS
    THEN [err |-> "ValueError: Invalid security tier", key |-> <<>>]
    ELSE IF tier_iterations(tier) = 0 \/ IsNone(salt) \/ Len(salt[1]) # SALT_SIZE
    THEN [err |-> "", key |-> master_key]
    ELSE [err |-> "",
          key |-> PBKDF2HMAC_derive(KEY_SIZE, salt[1], tier_iterations(tier),
                                    master_key)]

\* ZeroEnvCrypto.derive_key; salt is Optional[bytes].
derive_key(master_key, tier, salt) ==
    IF tier \notin SECURITY_TIERS
    THEN [err |-> "ValueError: Invalid security tier", key |-> <<>>]
    ELSE IF tier_iterations(tier) = 0
    THEN [err |-> "", key |-> master_key]
    ELSE IF IsNone(salt)
    THEN [err |-> "ValueError: Salt required", key |-> <<>>]
    ELSE IF Len(salt[1]) # SALT_SIZE
    THEN [err |-> "ValueError: Salt must be 16 bytes", key |-> <<>>]
    ELSE [err |-> "",
          key |-> PBKDF2HMAC_derive(KEY_SIZE, salt[1], tier_iterations(tier),
                                    master_key)]

(***************************************************************************)
(* The two files of a store directory.                                     *)
(*   .secrets.key  [exists, text]         text: what read_text() returns   *)
(*   .secrets      [exists, torn, data]   data: what json.loads returns;   *)
(*                 torn: the file does not hold one document: it was       *)
(*                 opened for writing and the text is not yet there (data  *)
(*                 = NoData), or a shorter document was written over a     *)
(*                 longer one whose tail is left (data = the longer one)   *)
(***************************************************************************)
NoData ==
    [version |-> "", created_at |-> 0, security_tier |-> None, salt |-> None,
     secrets |-> <<>>]

NoKeyFile == [exists |-> FALSE, text |-> <<>>]
NoSecretsFile == [exists |-> FALSE, torn |-> FALSE, data |-> NoData]

\* Path.write_text(text) when it has completed.
write_text(text) == [exists |-> TRUE, text |-> text]

\* dict operations on the "secrets" mapping (insertion ordered).
dict_has(secrets, name) == \E i \in 1..Len(secrets) : secrets[i].name = name
dict_index(secrets, name) == CHOOSE i \in 1..Len(secrets) : secrets[i].name = name
dict_get(secrets, name) == secrets[dict_index(secrets, name)]
\* dict.setdefault in place of the assignment: an existing entry is kept.
dict_setdefault(secrets, name, entry) ==
    IF dict_has(secrets, name) THEN secrets ELSE Append(secrets, entry)

\* An assignment that adds an entry also when the key is there already.
dict_append(d, k, v) == Append(d, v)

\* del by position in place of del by name: the oldest entry goes.
dict_del_oldest(secrets, name) == Tail(secrets)

dict_set(secrets, name, entry) ==
    IF dict_has(secrets, name)
    THEN [secrets EXCEPT ![dict_index(secrets, name)] = entry]
    ELSE Append(secrets, entry)
dict_del(secrets, name) ==
    LET keep(e) == e.name # name IN SelectSeq(secrets, keep)
dict_keys(secrets) == Tup([i \in 1..Len(secrets) |-> secrets[i].name])

(***************************************************************************)
(* storage.py: SecretsStorage.  kf and sf are the two files.               *)
(***************************************************************************)
\* is_initialized that looks for the record file only.
is_initialized_secrets_only(kf, sf) == sf.exists

\* SecretsStorage.is_initialized
is_initialized(kf, sf) == sf.exists /\ kf.exists

\* SecretsStorage.load_secrets_file
load_secrets_file(sf) ==
    IF ~sf.exists THEN [err |-> "FileNotFoundError", data |-> NoData]
    ELSE IF sf.torn THEN [err |-> "JSONDecodeError", data |-> NoData]
    ELSE [err |-> "", data |-> sf.data]

\* SecretsStorage.save_secrets_file, when write_text has completed.
save_secrets_file(data) == [exists |-> TRUE, torn |-> FALSE, data |-> data]

\* initialize that writes the key file before it looks at the tier.
initialize_key_first(kf, sf, master_key, tier, salt, now) ==
    IF tier \notin SECURITY_TIERS
    THEN [err |-> "ValueError: Invalid security tier",
          key_file |-> write_text(key_to_string(master_key)), secrets_file |-> sf]
    ELSE [err |-> "",
          key_file |-> write_text(key_to_string(master_key)),
          secrets_file |-> save_secrets_file(
              [version |-> "1.0", created_at |-> now,
               security_tier |-> Some(tier),
               salt |-> IF tier # "standard" THEN Some(key_to_string(salt))
                        ELSE None,
               secrets |-> <<>>])]

\* initialize that stores a salt under every tier.
initialize_salt_always(kf, sf, master_key, tier, salt, now) ==
    IF tier \notin SECURITY_TIERS
    THEN [err |-> "ValueError: Invalid security tier",
          key_file |-> kf, secrets_file |-> sf]
    ELSE [err |-> "",
          key_file |-> write_text(key_to_string(master_key)),
          secrets_file |-> save_secrets_file(
              [version |-> "1.0", created_at |-> now,
               security_tier |-> Some(tier),
               salt |-> Some(key_to_string(salt)),
               secrets |-> <<>>])]

\* SecretsStorage.initialize; salt is what generate_salt() returns, now is
\* datetime.now().  No check of the files that exist: both are overwritten.
initialize(kf, sf, master_key, tier, salt, now) ==
    IF tier \notin SECURITY_TIERS
    THEN [err |-> "ValueError: Invalid security tier",
          key_file |-> kf, secrets_file |-> sf]
    ELSE LET initial_data ==
                [version |-> "1.0", created_at |-> now,
                 security_tier |-> Some(tier),
                 salt |-> IF tier # "standard" THEN Some(key_to_string(salt))
                          ELSE None,
                 secrets |-> <<>>]
         IN  [err |-> "",
              key_file |-> write_text(key_to_string(master_key)),
              secrets_file |-> save_secrets_file(initial_data)]

\* SecretsStorage.load_master_key
load_master_key(kf) ==
    IF ~kf.exists THEN [err |-> "FileNotFoundError", key |-> <<>>]
    ELSE Bind(string_to_key(strip(kf.text)), LAMBDA k :
            [err |-> k.err, key |-> k.bytes])

\* get_security_tier that requires the field.
get_security_tier_strict(sf) ==
    LET f == load_secrets_file(sf)
    IN  IF f.err # "" THEN [err |-> f.err, tier |-> ""]
        ELSE IF IsNone(f.data.security_tier) THEN [err |-> "KeyError", tier |-> ""]
        ELSE [err |-> "", tier |-> f.data.security_tier[1]]

\* get_security_tier that reads every unknown tier name as "standard".
get_security_tier_lenient(sf) ==
    LET f == load_secrets_file(sf)
    IN  IF f.err # "" THEN [err |-> f.err, tier |-> ""]
        ELSE [err |-> "",
              tier |-> IF IsNone(f.data.security_tier) THEN "standard"
                       ELSE IF f.data.security_tier[1] \notin SECURITY_TIERS
                       THEN "standard"
                       ELSE f.data.security_tier[1]]

\* SecretsStorage.get_security_tier
get_security_tier(sf) ==
    LET f == load_secrets_file(sf)
    IN  IF f.err # "" THEN [err |-> f.err, tier |-> ""]
        ELSE [err |-> "",
              tier |-> IF IsNone(f.data.security_tier) THEN "standard"
                       ELSE f.data.security_tier[1]]

\* get_salt that draws a salt in each process instead of reading it.
get_salt_per_process(sf) ==
    LET f == load_secrets_file(sf)
        s1 == CHOOSE s \in generate_salt : TRUE
        s2 == CHOOSE s \in generate_salt : s # s1
    IN  IF f.err # "" THEN [err |-> f.err, salt |-> None]
        ELSE [err |-> "",
              salt |-> Some(IF Len(f.data.secrets) % 2 = 0 THEN s1 ELSE s2)]

\* SecretsStorage.get_salt: Optional[bytes]; a missing or empty salt is None.
get_salt(sf) ==
    LET f == load_secrets_file(sf)
        salt_string == f.data.salt
    IN  IF f.err # "" THEN [err |-> f.err, salt |-> None]
        ELSE IF ~IsNone(salt_string) /\ Len(salt_string[1]) > 0
        THEN Bind(string_to_key(salt_string[1]), LAMBDA b :
                IF b.err # "" THEN [err |-> b.err, salt |-> None]
                ELSE [err |-> "", salt |-> Some(b.bytes)])
        ELSE [err |-> "", salt |-> None]

\* SecretsStorage.load_encryption_key
load_encryption_key(kf, sf) ==
    Bind(load_master_key(kf), LAMBDA master_key :
        IF master_key.err # "" THEN [err |-> master_key.err, key |-> <<>>]
        ELSE Bind(get_security_tier(sf), LAMBDA tier :
            IF tier.err # "" THEN [err |-> tier.err, key |-> <<>>]
            ELSE Bind(get_salt(sf), LAMBDA salt :
                IF salt.err # "" THEN [err |-> salt.err, key |-> <<>>]
                ELSE derive_key(master_key.key, tier.tier, salt.salt))))

\* add_secret that stamps every record with the time of the call.
add_secret_restamping(sf, crypto, name, value, nonce, now) ==
    LET f == load_secrets_file(sf)
    IN  IF f.err # "" THEN [err |-> f.err, secrets_file |-> sf]
        ELSE Bind(encrypt(crypto, value, nonce), LAMBDA encrypted :
            IF encrypted.err # "" THEN [err |-> encrypted.err, secrets_file |-> sf]
            ELSE Bind(dict_set(f.data.secrets, name,
                               [name |-> name,
                                ciphertext |-> encrypted.ciphertext,
                                nonce |-> encrypted.nonce,
                                updated_at |-> now]), LAMBDA secrets :
                [err |-> "",
                 secrets_file |-> save_secrets_file(
                     [f.data EXCEPT !.secrets =
                         Tup([i \in 1..Len(secrets) |->
                                [secrets[i] EXCEPT !.updated_at = now]])])]))

\* add_secret that seals an existing name again under the nonce of its record.
add_secret_keep_nonce(sf, crypto, name, value, nonce, now) ==
    LET f == load_secrets_file(sf)
    IN  IF f.err # "" THEN [err |-> f.err, secrets_file |-> sf]
        ELSE Bind(encrypt(crypto, value,
                          IF dict_has(f.data.secrets, name)
                          THEN b64decode(dict_get(f.data.secrets, name).nonce).bytes
                          ELSE nonce), LAMBDA encrypted :
            IF encrypted.err # "" THEN [err |-> encrypted.err, secrets_file |-> sf]
            ELSE [err |-> "",
                  secrets_file |-> save_secrets_file(
                      [f.data EXCEPT !.secrets =
                          dict_set(@, name,
                              [name |-> name,
                               ciphertext |-> encrypted.ciphertext,
                               nonce |-> encrypted.nonce,
                               updated_at |-> now])])])

\* SecretsStorage.add_secret; nonce is what os.urandom returns in encrypt.
add_secret(sf, crypto, name, value, nonce, now) ==
    LET f == load_secrets_file(sf)
    IN  IF f.err # "" THEN [err |-> f.err, secrets_file |-> sf]
        ELSE Bind(encrypt(crypto, value, nonce), LAMBDA encrypted :
            IF encrypted.err # "" THEN [err |-> encrypted.err, secrets_file |-> sf]
            ELSE [err |-> "",
                  secrets_file |-> save_secrets_file(
                      [f.data EXCEPT !.secrets =
                          dict_set(@, name,
                              [name |-> name,
                               ciphertext |-> encrypted.ciphertext,
                               nonce |-> encrypted.nonce,
                               updated_at |-> now])])])

\* get_secret that catches the failure of decrypt and answers None.
get_secret_lenient(sf, crypto, name) ==
    LET f == load_secrets_file(sf)
    IN  IF f.err # "" THEN [err |-> f.err, value |-> None]
        ELSE IF ~dict_has(f.data.secrets, name) THEN [err |-> "", value |-> None]
        ELSE Bind(decrypt(crypto, dict_get(f.data.secrets, name)), LAMBDA d :
                IF d.err # "" THEN [err |-> "", value |-> None]
                ELSE [err |-> "", value |-> Some(d.str)])

\* SecretsStorage.get_secret: Optional[str], None when the name is absent.
get_secret(sf, crypto, name) ==
    LET f == load_secrets_file(sf)
    IN  IF f.err # "" THEN [err |-> f.err, value |-> None]
        ELSE IF ~dict_has(f.data.secrets, name) THEN [err |-> "", value |-> None]
        ELSE Bind(decrypt(crypto, dict_get(f.data.secrets, name)), LAMBDA d :
                IF d.err # "" THEN [err |-> d.err, value |-> None]
                ELSE [err |-> "", value |-> Some(d.str)])

\* SecretsStorage.list_secrets
list_secrets(sf) ==
    LET f == load_secrets_file(sf)
    IN  IF f.err # "" THEN [err |-> f.err, names |-> <<>>]
        ELSE [err |-> "", names |-> dict_keys(f.data.secrets)]

\* SecretsStorage.remove_secret
remove_secret(sf, name) ==
    LET f == load_secrets_file(sf)
    IN  IF f.err # "" THEN [err |-> f.err, removed |-> FALSE, secrets_file |-> sf]
        ELSE IF ~dict_has(f.data.secrets, name)
        THEN [err |-> "", removed |-> FALSE, secrets_file |-> sf]
        ELSE [err |-> "", removed |-> TRUE,
              secrets_file |-> save_secrets_file(
                  [f.data EXCEPT !.secrets = dict_del(@, name)])]

\* get_all_secrets that skips the records decrypt fails on.
get_all_secrets_skipping(sf, crypto) ==
    LET f == load_secrets_file(sf)
        secrets == f.data.secrets
    IN  IF f.err # "" THEN [err |-> f.err, result |-> <<>>]
        ELSE Bind(Tup([i \in 1..Len(secrets) |->
                         [name |-> secrets[i].name,
                          d |-> decrypt(crypto, secrets[i])]]),
                  LAMBDA all :
            LET good(e) == e.d.err = ""
                kept == SelectSeq(all, good)
            IN  [err |-> "",
                 result |-> Tup([i \in 1..Len(kept) |->
                                  [name |-> kept[i].name,
                                   value |-> kept[i].d.str]])])

\* SecretsStorage.get_all_secrets: the loop stops at the first record whose
\* decrypt raises, and the exception leaves the function.
get_all_secrets(sf, crypto) ==
    LET f == load_secrets_file(sf)
        secrets == f.data.secrets
    IN  IF f.err # "" THEN [err |-> f.err, result |-> <<>>]
        ELSE Bind(Tup([i \in 1..Len(secrets) |-> decrypt(crypto, secrets[i])]),
                  LAMBDA d :
            LET bad == {i \in 1..Len(d) : d[i].err # ""}
            IN  IF bad # {}
                THEN [err |-> d[CHOOSE i \in bad : \A j \in bad : i <= j].err,
                      result |-> <<>>]
                ELSE [err |-> "",
                      result |-> Tup([i \in 1..Len(d) |->
                                    [name |-> secrets[i].name,
                                     value |-> d[i].str]])])

\* SecretsStorage.get_secret_metadata: name and updated_at, nothing decrypted.
get_secret_metadata(sf, name) ==
    LET f == load_secrets_file(sf)
    IN  IF f.err # "" THEN [err |-> f.err, metadata |-> None]
        ELSE IF ~dict_has(f.data.secrets, name) THEN [err |-> "", metadata |-> None]
        ELSE [err |-> "",
              metadata |-> Some([name |-> name,
                                 updated_at |->
                                    dict_get(f.data.secrets, name).updated_at])]

(***************************************************************************)
(* cli.py: the commands.  Each is one process: it builds its own           *)
(* SecretsStorage, derives the key again from the files and exits.         *)
(* A command's result:                                                     *)
(*   cmd, name   the command and its NAME argument                         *)
(*   status      "ok" (exit 0), "cancelled" (exit 0), "AlreadyInitialized",*)
(*               "NotInitialized", "NotFound" (ui.print_error, exit 1),    *)
(*               "exception" (an uncaught exception, named in err)         *)
(*   text        the value printed by get                                  *)
(*   names       the names shown by ls                                     *)
(*   table       the name/value pairs shown by ls --values, export, run    *)
(*   tier, count what init, ls and info show of the store                  *)
(*   key         the master key init generated                             *)
(*   values      the flag --values of ls                                   *)
(***************************************************************************)
Result(cmd, name, status, err) ==
    [cmd |-> cmd, name |-> name, status |-> status, err |-> err,
     text |-> <<>>, names |-> <<>>, table |-> <<>>, tier |-> "", count |-> 0,
     key |-> <<>>, values |-> FALSE]

Outcome(kf, sf, res) == [key_file |-> kf, secrets_file |-> sf, out |-> res]

\* No command has run since the files were last touched from outside.
NoResult == Result("start", "", "ok", "")

\* storage.load_encryption_key() and ZeroEnvCrypto(encryption_key): the
\* cipher that add, get, ls --values, export and run build.
load_crypto(kf, sf) ==
    Bind(load_encryption_key(kf, sf), LAMBDA encryption_key :
        IF encryption_key.err # "" THEN [err |-> encryption_key.err, key |-> <<>>]
        ELSE ZeroEnvCrypto(encryption_key.key))

\* init without the check of is_initialized.
init_unguarded(kf, sf, master_key, tier, salt, now) ==
    Bind(initialize(kf, sf, master_key, tier, salt, now), LAMBDA r :
        IF r.err # ""
        THEN Outcome(kf, sf, Result("init", "", "exception", r.err))
        ELSE Outcome(r.key_file, r.secrets_file,
                     [Result("init", "", "ok", "") EXCEPT
                         !.tier = tier, !.key = master_key]))

\* init that is accepted again while the store holds no secret.
init_while_empty(kf, sf, master_key, tier, salt, now) ==
    IF is_initialized(kf, sf) /\ (sf.torn \/ Len(sf.data.secrets) > 0)
    THEN Outcome(kf, sf, Result("init", "", "AlreadyInitialized", ""))
    ELSE Bind(initialize(kf, sf, master_key, tier, salt, now), LAMBDA r :
            IF r.err # ""
            THEN Outcome(kf, sf, Result("init", "", "exception", r.err))
            ELSE Outcome(r.key_file, r.secrets_file,
                         [Result("init", "", "ok", "") EXCEPT
                             !.tier = tier, !.key = master_key]))

\* cli.init
init(kf, sf, master_key, tier, salt, now) ==
    IF is_initialized(kf, sf)
    THEN Outcome(kf, sf, Result("init", "", "AlreadyInitialized", ""))
    ELSE Bind(initialize(kf, sf, master_key, tier, salt, now), LAMBDA r :
            IF r.err # ""
            THEN Outcome(kf, sf, Result("init", "", "exception", r.err))
            ELSE Outcome(r.key_file, r.secrets_file,
                         [Result("init", "", "ok", "") EXCEPT
                             !.tier = tier, !.key = master_key]))

\* add that builds its cipher on the master key, whatever the tier.
add_with_master_key(kf, sf, name, value, nonce, now) ==
    IF ~is_initialized(kf, sf)
    THEN Outcome(kf, sf, Result("add", name, "NotInitialized", ""))
    ELSE Bind(load_master_key(kf), LAMBDA mk :
            IF mk.err # ""
            THEN Outcome(kf, sf, Result("add", name, "exception", mk.err))
            ELSE Bind(add_secret(sf, ZeroEnvCrypto(mk.key), name, value, nonce, now),
                      LAMBDA r :
                IF r.err # ""
                THEN Outcome(kf, sf, Result("add", name, "exception", r.err))
                ELSE Outcome(kf, r.secrets_file, Result("add", name, "ok", ""))))

\* cli.add
add(kf, sf, name, value, nonce, now) ==
    IF ~is_initialized(kf, sf)
    THEN Outcome(kf, sf, Result("add", name, "NotInitialized", ""))
    ELSE Bind(load_crypto(kf, sf), LAMBDA crypto :
            IF crypto.err # ""
            THEN Outcome(kf, sf, Result("add", name, "exception", crypto.err))
            ELSE Bind(add_secret(sf, crypto, name, value, nonce, now), LAMBDA r :
                IF r.err # ""
                THEN Outcome(kf, sf, Result("add", name, "exception", r.err))
                ELSE Outcome(kf, r.secrets_file, Result("add", name, "ok", ""))))

\* get that deletes a record it cannot decrypt and saves the file.
get_dropping_bad(kf, sf, name) ==
    IF ~is_initialized(kf, sf)
    THEN Outcome(kf, sf, Result("get", name, "NotInitialized", ""))
    ELSE Bind(load_crypto(kf, sf), LAMBDA crypto :
            IF crypto.err # ""
            THEN Outcome(kf, sf, Result("get", name, "exception", crypto.err))
            ELSE Bind(get_secret(sf, crypto, name), LAMBDA value :
                IF value.err # ""
                THEN Outcome(kf, remove_secret(sf, name).secrets_file,
                             Result("get", name, "exception", value.err))
                ELSE IF IsNone(value.value)
                THEN Outcome(kf, sf, Result("get", name, "NotFound", ""))
                ELSE Outcome(kf, sf, [Result("get", name, "ok", "") EXCEPT
                                         !.text = value.value[1]])))

\* cli.get
get(kf, sf, name) ==
    IF ~is_initialized(kf, sf)
    THEN Outcome(kf, sf, Result("get", name, "NotInitialized", ""))
    ELSE Bind(load_crypto(kf, sf), LAMBDA crypto :
            IF crypto.err # ""
            THEN Outcome(kf, sf, Result("get", name, "exception", crypto.err))
            ELSE Bind(get_secret(sf, crypto, name), LAMBDA value :
                IF value.err # ""
                THEN Outcome(kf, sf, Result("get", name, "exception", value.err))
                ELSE IF IsNone(value.value)
                THEN Outcome(kf, sf, Result("get", name, "NotFound", ""))
                ELSE Outcome(kf, sf, [Result("get", name, "ok", "") EXCEPT
                                         !.text = value.value[1]])))

\* The body of cli.list_secrets after the check of is_initialized: secrets
\* is the mapping to show ([err, names, table]).
ls_show(kf, sf, values, secrets) ==
    LET base(status, err) == [Result("ls", "", status, err) EXCEPT !.values = values]
    IN  IF secrets.err # ""
        THEN Outcome(kf, sf, base("exception", secrets.err))
        ELSE Bind(get_security_tier(sf), LAMBDA tier :
            IF tier.err # ""
            THEN Outcome(kf, sf, base("exception", tier.err))
            ELSE Outcome(kf, sf, [base("ok", "") EXCEPT
                                     !.tier = tier.tier,
                                     !.names = secrets.names,
                                     !.table = secrets.table]))

\* ls --values: every value is decrypted.
ls_values(kf, sf) ==
    Bind(load_crypto(kf, sf), LAMBDA crypto :
        IF crypto.err # ""
        THEN [err |-> crypto.err, names |-> <<>>, table |-> <<>>]
        ELSE Bind(get_all_secrets(sf, crypto), LAMBDA all :
            [err |-> all.err,
             names |-> Tup([i \in 1..Len(all.result) |-> all.result[i].name]),
             table |-> all.result]))

\* ls that decrypts every value to list the names.
ls_names_decrypting(kf, sf) ==
    Bind(ls_values(kf, sf), LAMBDA listed :
        [err |-> listed.err, names |-> listed.names, table |-> <<>>])

\* ls: the names, each with the mask "***" that the table does not show.
ls_names(kf, sf) ==
    Bind(list_secrets(sf), LAMBDA listed :
        [err |-> listed.err, names |-> listed.names, table |-> <<>>])

\* cli.list_secrets (the command ls); values is the flag --values.
ls(kf, sf, values) ==
    IF ~is_initialized(kf, sf)
    THEN Outcome(kf, sf, [Result("ls", "", "NotInitialized", "") EXCEPT
                             !.values = values])
    ELSE Bind(IF values THEN ls_values(kf, sf) ELSE ls_names(kf, sf),
              LAMBDA secrets : ls_show(kf, sf, values, secrets))

\* cli.rm; confirmed is --yes or the answer to the prompt.
rm(kf, sf, name, confirmed) ==
    IF ~is_initialized(kf, sf)
    THEN Outcome(kf, sf, Result("rm", name, "NotInitialized", ""))
    ELSE IF ~confirmed
    THEN Outcome(kf, sf, Result("rm", name, "cancelled", ""))
    ELSE Bind(remove_secret(sf, name), LAMBDA r :
            IF r.err # ""
            THEN Outcome(kf, sf, Result("rm", name, "exception", r.err))
            ELSE IF r.removed
            THEN Outcome(kf, r.secrets_file, Result("rm", name, "ok", ""))
            ELSE Outcome(kf, sf, Result("rm", name, "NotFound", "")))

\* cli.export and cli.run up to the use of the decrypted mapping.
export_all(cmd, kf, sf) ==
    IF ~is_initialized(kf, sf)
    THEN Outcome(kf, sf, Result(cmd, "", "NotInitialized", ""))
    ELSE Bind(load_crypto(kf, sf), LAMBDA crypto :
            IF crypto.err # ""
            THEN Outcome(kf, sf, Result(cmd, "", "exception", crypto.err))
            ELSE Bind(get_all_secrets(sf, crypto), LAMBDA secrets :
                IF secrets.err # ""
                THEN Outcome(kf, sf, Result(cmd, "", "exception", secrets.err))
                ELSE Outcome(kf, sf,
                       [Result(cmd, "", "ok", "") EXCEPT
                          !.table = secrets.result,
                          !.names = Tup([i \in 1..Len(secrets.result) |->
                                          secrets.result[i].name]),
                          !.count = Len(secrets.result)])))

\* cli.export
export(kf, sf) == export_all("export", kf, sf)

\* cli.run
run(kf, sf) == export_all("run", kf, sf)

\* cli.info
info(kf, sf) ==
    IF ~is_initialized(kf, sf)
    THEN Outcome(kf, sf, Result("info", "", "NotInitialized", ""))
    ELSE Bind(get_security_tier(sf), LAMBDA tier :
            IF tier.err # ""
            THEN Outcome(kf, sf, Result("info", "", "exception", tier.err))
            ELSE Bind(list_secrets(sf), LAMBDA listed :
                IF listed.err # ""
                THEN Outcome(kf, sf, Result("info", "", "exception", listed.err))
                ELSE Outcome(kf, sf,
                       [Result("info", "", "ok", "") EXCEPT
                          !.tier = tier.tier, !.count = Len(listed.names)])))

(***************************************************************************)
(* The state: the store directory, the wall clock (what datetime.now()     *)
(* returns; it stands still while these commands run), the result of the   *)
(* last command (NoResult once the files were changed from outside), and   *)
(* the history the claims are stated against.                              *)
(*   hist[n]  None, or what the commands last stored for n in this store   *)
(*            and did not remove since:                                    *)
(*              value        the plaintext given to add                    *)
(*              sealed_with  the encryption key add sealed it with         *)
(*              altered      the fields of the record that were changed    *)
(*                           on disk since, behind the program's back      *)
(*              drawn        the nonce os.urandom returned in that add     *)
(*   proc[p]  a command that runs step by step next to the others: where   *)
(*            it is (pc), what it is about to write (key, doc), the result *)
(*            it will report (out) and the history it will leave (hist)    *)
(*   api      a program that uses crypto.py directly: the ZeroEnvCrypto     *)
(*            object it holds (engine), the values it sealed with it       *)
(*            (sealed, the latest first) and its last call (last)          *)
(***************************************************************************)
VARIABLES key_file, secrets_file, clock, out, hist, proc, api

vars == <<key_file, secrets_file, clock, out, hist, proc, api>>

NoHist == [n \in Names |-> None]

Procs == {1, 2}

\* No call of crypto.py made yet.
NoCall == [op |-> "none", err |-> ""]
NoApi == [engine |-> None, sealed |-> <<>>, last |-> NoCall]

Idle == [pc |-> "idle", out |-> NoResult,
         key |-> NoKeyFile, doc |-> NoData, hist |-> <<>>]

Init ==
    /\ key_file = NoKeyFile
    /\ secrets_file = NoSecretsFile
    /\ clock = 0
    /\ out = NoResult
    /\ hist = NoHist
    /\ proc = [p \in Procs |-> Idle]
    /\ api = NoApi

Apply(o) ==
    /\ key_file' = o.key_file
    /\ secrets_file' = o.secrets_file
    /\ out' = o.out

\* zeroenv init --tier TIER
CmdInit(keys, tiers, salts) ==
    \E master_key \in keys, tier \in tiers, salt \in salts :
        \E o \in {init(key_file, secrets_file, master_key, tier, salt, clock)} :
            /\ Apply(o)
            /\ hist' = IF o.out.status = "ok" THEN NoHist ELSE hist
            /\ UNCHANGED <<clock, proc, api>>

\* zeroenv add NAME VALUE
CmdAdd(values, nonces) ==
    \E name \in Names, value \in values, nonce \in nonces :
        \E o \in {add(key_file, secrets_file, name, value, nonce, clock)} :
            /\ Apply(o)
            /\ hist' = IF o.out.status = "ok"
                       THEN [hist EXCEPT ![name] =
                               Some([value |-> value,
                                     sealed_with |->
                                       load_encryption_key(key_file, secrets_file).key,
                                     altered |-> {},
                                     drawn |-> nonce])]
                       ELSE hist
            /\ UNCHANGED <<clock, proc, api>>

DoInit == CmdInit(generate_master_key, SECURITY_TIERS, generate_salt)

DoAdd == CmdAdd(Values, urandom(NONCE_SIZE))

\* zeroenv get NAME
DoGet ==
    \E name \in Names :
        \E o \in {get(key_file, secrets_file, name)} :
            /\ Apply(o)
            /\ UNCHANGED <<clock, hist, proc, api>>

\* zeroenv ls [--values]
DoLs ==
    \E values \in BOOLEAN :
        \E o \in {ls(key_file, secrets_file, values)} :
            /\ Apply(o)
            /\ UNCHANGED <<clock, hist, proc, api>>

\* zeroenv rm NAME [--yes]
DoRm ==
    \E name \in Names, confirmed \in BOOLEAN :
        \E o \in {rm(key_file, secrets_file, name, confirmed)} :
            /\ Apply(o)
            /\ hist' = IF o.out.status = "ok"
                       THEN [hist EXCEPT ![name] = None] ELSE hist
            /\ UNCHANGED <<clock, proc, api>>

\* zeroenv export
DoExport ==
    \E o \in {export(key_file, secrets_file)} :
        /\ Apply(o)
        /\ UNCHANGED <<clock, hist, proc, api>>

\* zeroenv run COMMAND
DoRun ==
    \E o \in {run(key_file, secrets_file)} :
        /\ Apply(o)
        /\ UNCHANGED <<clock, hist, proc, api>>

\* zeroenv info
DoInfo ==
    \E o \in {info(key_file, secrets_file)} :
        /\ Apply(o)
        /\ UNCHANGED <<clock, hist, proc, api>>

\* The commands, one after the other, on one directory.
Next ==
    \/ DoInit
    \/ DoAdd
    \/ DoGet
    \/ DoLs
    \/ DoRm
    \/ DoExport
    \/ DoRun
    \/ DoInfo

Spec == Init /\ [][Next]_vars

(***************************************************************************)
(* What happens to the two files outside the commands: a checkout without  *)
(* the ignored key file, a file deleted, the key file of another store     *)
(* copied in, a record edited or damaged on disk.                          *)
(***************************************************************************)
\* .secrets.key is missing (deleted, or never checked out).
EnvRemoveKeyFile ==
    /\ key_file.exists
    /\ key_file' = NoKeyFile
    /\ out' = NoResult
    /\ UNCHANGED <<secrets_file, clock, hist, proc, api>>

\* .secrets is deleted.
EnvRemoveSecretsFile ==
    /\ secrets_file.exists
    /\ secrets_file' = NoSecretsFile
    /\ hist' = NoHist
    /\ out' = NoResult
    /\ UNCHANGED <<key_file, clock, proc, api>>

\* .secrets.key is replaced by another well-formed key.
EnvReplaceKeyFile ==
    \E k \in generate_key :
        /\ key_file.exists
        /\ key_file' = write_text(key_to_string(k))
        /\ key_file' # key_file
        /\ out' = NoResult
        /\ UNCHANGED <<secrets_file, clock, hist, proc, api>>

\* One bit of the first character of a base64 text is flipped.
flip_bit(text) ==
    [text EXCEPT ![1] = IF @ % 2 = 0 THEN @ + 1 ELSE @ - 1]

Toggle(set, x) == IF x \in set THEN set \ {x} ELSE set \cup {x}

\* The stored ciphertext or nonce of one record is altered on disk.
EnvAlterRecord ==
    \E name \in Names, field \in {"ciphertext", "nonce"} :
        /\ secrets_file.exists /\ ~secrets_file.torn
        /\ dict_has(secrets_file.data.secrets, name)
        /\ LET i == dict_index(secrets_file.data.secrets, name)
           IN  secrets_file' =
                 IF field = "ciphertext"
                 THEN [secrets_file EXCEPT !.data.secrets[i].ciphertext = flip_bit(@)]
                 ELSE [secrets_file EXCEPT !.data.secrets[i].nonce = flip_bit(@)]
        /\ hist' = IF IsNone(hist[name]) THEN hist
                   ELSE [hist EXCEPT ![name][1].altered = Toggle(@, field)]
        /\ out' = NoResult
        /\ UNCHANGED <<key_file, clock, proc, api>>

\* The commands on a directory whose files come and go.
LostNext ==
    \/ Next
    \/ EnvRemoveKeyFile
    \/ EnvRemoveSecretsFile

LostSpec == Init /\ [][LostNext]_vars

\* The commands on a store whose files are changed behind the program's back.
TamperNext ==
    \/ CmdInit(generate_master_key, {"standard", "enhanced"},
               {CHOOSE s \in generate_salt : TRUE})
    \/ CmdAdd({CHOOSE v \in Values : TRUE}, {CHOOSE n \in urandom(NONCE_SIZE) : TRUE})
    \/ DoGet
    \/ DoLs
    \/ DoRm
    \/ DoExport
    \/ DoRun
    \/ EnvReplaceKeyFile
    \/ EnvAlterRecord

TamperSpec == Init /\ [][TamperNext]_vars

(***************************************************************************)
(* Two processes on one directory.  A command that writes does so in the   *)
(* steps of Path.write_text: open(path, "w") truncates the file, write and *)
(* close put the new text in it.  Nothing locks the files, so the other    *)
(* process runs between any two steps.                                     *)
(*   idle -> loaded              add, rm: everything up to json.dumps      *)
(*   idle -> init_key -> loaded  init: the key file is written first       *)
(*   loaded -> writing -> idle   the record file: truncated, then written  *)
(***************************************************************************)
\* A command p starts; o is what it reads and decides before it writes.
\* A command that fails or has nothing to write ends here.
Start(p, o, h) ==
    /\ proc[p].pc = "idle"
    /\ IF o.out.status = "ok"
       THEN /\ proc' = [proc EXCEPT ![p] =
                          [pc |-> IF o.out.cmd = "init" THEN "init_key" ELSE "loaded",
                           out |-> o.out,
                           key |-> o.key_file,
                           doc |-> o.secrets_file.data,
                           hist |-> h]]
            /\ UNCHANGED <<key_file, secrets_file, clock, out, hist, api>>
       ELSE /\ Apply(o)
            /\ UNCHANGED <<clock, hist, proc, api>>

\* zeroenv init, up to the first write; keys: what generate_master_key
\* may return.
ProcInitKeys(p, keys) ==
    \E master_key \in keys :
        \E o \in {init(key_file, secrets_file, master_key, "enhanced",
                       CHOOSE s \in generate_salt : TRUE, clock)} :
            Start(p, o, NoHist)

ProcInit(p) == ProcInitKeys(p, {CHOOSE k \in generate_master_key : TRUE})

\* zeroenv add NAME VALUE, up to the write.
ProcAdd(p) ==
    \E name \in Names :
        LET value == CHOOSE v \in Values : TRUE
            nonce == CHOOSE n \in urandom(NONCE_SIZE) : TRUE
        IN  \E o \in {add(key_file, secrets_file, name, value, nonce, clock)} :
                Start(p, o, [hist EXCEPT ![name] =
                                Some([value |-> value,
                                      sealed_with |->
                                       load_encryption_key(key_file, secrets_file).key,
                                      altered |-> {},
                                      drawn |-> nonce])])

\* zeroenv rm NAME --yes, up to the write.
ProcRm(p) ==
    \E name \in Names :
        \E o \in {rm(key_file, secrets_file, name, TRUE)} :
            Start(p, o, [hist EXCEPT ![name] = None])

\* initialize: self.key_path.write_text(key_string)
ProcWriteKey(p) ==
    /\ proc[p].pc = "init_key"
    /\ key_file' = proc[p].key
    /\ proc' = [proc EXCEPT ![p].pc = "loaded"]
    /\ UNCHANGED <<secrets_file, clock, out, hist, api>>

\* write_text opens the record file: it exists and is empty.
ProcTruncate(p) ==
    /\ proc[p].pc = "loaded"
    /\ secrets_file' = [exists |-> TRUE, torn |-> TRUE, data |-> NoData]
    /\ proc' = [proc EXCEPT ![p].pc = "writing"]
    /\ UNCHANGED <<key_file, clock, out, hist, api>>

\* The number of characters of json.dumps(data, indent=2): the braces and
\* the fields version, created_at and secrets (JSON_DOC_LEN), the fields
\* security_tier and salt when present, and for each record its name, its
\* three fields and the punctuation around them (JSON_RECORD_LEN).
JSON_DOC_LEN == 85
JSON_TIER_LEN == 23
JSON_SALT_LEN == 14
JSON_RECORD_LEN == 110

json_len(data) ==
    JSON_DOC_LEN
    + (IF IsNone(data.security_tier) THEN 0
       ELSE JSON_TIER_LEN + Len(data.security_tier[1]))
    + (IF IsNone(data.salt) THEN 0 ELSE JSON_SALT_LEN + Len(data.salt[1]))
    + (IF Len(data.secrets) = 0 THEN 0 ELSE 1)
    + SumSeq([i \in 1..Len(data.secrets) |->
                JSON_RECORD_LEN + Len(data.secrets[i].name)
                + Len(data.secrets[i].ciphertext) + Len(data.secrets[i].nonce)])

\* The number of characters the record file holds.
file_len(sf) ==
    IF ~sf.exists \/ (sf.torn /\ sf.data = NoData) THEN 0 ELSE json_len(sf.data)

\* f.write(data) and close, on a file opened with mode 'w' some steps ago:
\* the text goes to the start of the file and nothing is cut off after it.
\* Where another writer has put a longer document there since the file was
\* opened, its tail stays behind the text: the file is no JSON document
\* (torn, data being the longer document whose tail is left).
write_over(sf, data) ==
    IF json_len(data) >= file_len(sf) THEN save_secrets_file(data)
    ELSE [exists |-> TRUE, torn |-> TRUE, data |-> sf.data]

\* write_text writes the document and closes the file; the command ends.
ProcWrite(p) ==
    /\ proc[p].pc = "writing"
    /\ secrets_file' = write_over(secrets_file, proc[p].doc)
    /\ out' = proc[p].out
    /\ hist' = proc[p].hist
    /\ proc' = [proc EXCEPT ![p] = Idle]
    /\ UNCHANGED <<key_file, clock, api>>

ConcNext ==
    \/ \E p \in Procs : ProcInit(p)
    \/ \E p \in Procs : ProcAdd(p)
    \/ \E p \in Procs : ProcRm(p)
    \/ \E p \in Procs : ProcWriteKey(p)
    \/ \E p \in Procs : ProcTruncate(p)
    \/ \E p \in Procs : ProcWrite(p)
    \/ DoGet
    \/ DoLs

ConcSpec == Init /\ [][ConcNext]_vars

(***************************************************************************)
(* One process at a time, whose commands can be interrupted (killed, or    *)
(* stopped by an error of the file system) between any two of their steps. *)
(***************************************************************************)
\* The command ends here: nothing more is written and nothing is reported.
ProcCrash(p) ==
    /\ proc[p].pc # "idle"
    /\ proc' = [proc EXCEPT ![p] = Idle]
    /\ out' = [proc[p].out EXCEPT !.status = "interrupted"]
    /\ UNCHANGED <<key_file, secrets_file, clock, hist, api>>

CrashNext ==
    \/ ProcInitKeys(1, generate_master_key)
    \/ ProcAdd(1)
    \/ ProcRm(1)
    \/ ProcWriteKey(1)
    \/ ProcTruncate(1)
    \/ ProcWrite(1)
    \/ ProcCrash(1)
    \/ DoGet
    \/ DoLs

CrashSpec == Init /\ [][CrashNext]_vars

(***************************************************************************)
(* A program that calls SecretsStorage.initialize directly, as             *)
(* tests/test_storage.py does, with tier names of every kind and without   *)
(* asking is_initialized first; then the commands.                         *)
(***************************************************************************)
\* Tier names given to initialize: two of SECURITY_TIERS and two others.
InitializeTiers == {"standard", "enhanced", "invalid", ""}

\* storage.initialize(master_key, tier=tier)
StoreInitialize ==
    \E master_key \in generate_master_key, tier \in InitializeTiers :
        \E r \in {initialize(key_file, secrets_file, master_key, tier,
                              CHOOSE s \in generate_salt : TRUE, clock)} :
            /\ key_file' = r.key_file
            /\ secrets_file' = r.secrets_file
            /\ out' = [Result("initialize", "",
                              IF r.err = "" THEN "ok" ELSE "exception", r.err)
                         EXCEPT !.tier = tier, !.key = master_key]
            /\ hist' = IF r.err = "" THEN NoHist ELSE hist
            /\ UNCHANGED <<clock, proc, api>>

StorageNext ==
    \/ StoreInitialize
    \/ CmdAdd({CHOOSE v \in Values : TRUE}, {CHOOSE n \in urandom(NONCE_SIZE) : TRUE})
    \/ DoGet
    \/ DoRm
    \/ DoInfo

StorageSpec == Init /\ [][StorageNext]_vars

(***************************************************************************)
(* The commands that write, while the wall clock advances between them.    *)
(***************************************************************************)
\* The clock stops at MaxClock.
MaxClock == 2

\* Time passes: datetime.now() returns a later time.
Tick ==
    /\ clock < MaxClock
    /\ clock' = clock + 1
    /\ UNCHANGED <<key_file, secrets_file, out, hist, proc, api>>

TimedNext ==
    \/ CmdInit({CHOOSE k \in generate_master_key : TRUE}, {"standard", "enhanced"},
               {CHOOSE s \in generate_salt : TRUE})
    \/ CmdAdd({CHOOSE v \in Values : TRUE}, urandom(NONCE_SIZE))
    \/ DoRm
    \/ Tick

TimedSpec == Init /\ [][TimedNext]_vars

(***************************************************************************)
(* A store whose configuration is edited by hand or comes from elsewhere:  *)
(* the security_tier and salt fields of the record file, and a key file    *)
(* that holds fewer bytes than KEY_SIZE.                                   *)
(***************************************************************************)
\* What the security_tier field is set to; None: the field is removed.
EditedTiers == {None, Some("standard"), Some("enhanced"), Some("ultra")}

\* What the salt field is set to: removed, the empty string, the text of
\* SALT_SIZE - 1 bytes, the text of SALT_SIZE bytes.
EditedSalts ==
    LET s == CHOOSE x \in generate_salt : TRUE
    IN  {None, Some(<<>>), Some(key_to_string(SubSeq(s, 1, SALT_SIZE - 1))),
         Some(key_to_string(s))}

EnvEditTier ==
    \E t \in EditedTiers :
        /\ secrets_file.exists /\ ~secrets_file.torn
        /\ secrets_file.data.security_tier # t
        /\ secrets_file' = [secrets_file EXCEPT !.data.security_tier = t]
        /\ out' = NoResult
        /\ UNCHANGED <<key_file, clock, hist, proc, api>>

EnvEditSalt ==
    \E t \in EditedSalts :
        /\ secrets_file.exists /\ ~secrets_file.torn
        /\ secrets_file.data.salt # t
        /\ secrets_file' = [secrets_file EXCEPT !.data.salt = t]
        /\ out' = NoResult
        /\ UNCHANGED <<key_file, clock, hist, proc, api>>

\* The key file is replaced by the base64 text of the first 16 bytes of a key.
EnvShortenKeyFile ==
    \E k \in generate_key :
        /\ key_file.exists
        /\ key_file' = write_text(key_to_string(SubSeq(k, 1, 16)))
        /\ key_file' # key_file
        /\ out' = NoResult
        /\ UNCHANGED <<secrets_file, clock, hist, proc, api>>

\* storage.get_secret_metadata(name), called directly: no command uses it.
StoreMetadata ==
    \E name \in Names :
        \E m \in {get_secret_metadata(secrets_file, name)} :
            /\ out' = Result("get_secret_metadata", name,
                             IF m.err # "" THEN "exception"
                             ELSE IF IsNone(m.metadata) THEN "NotFound" ELSE "ok",
                             m.err)
            /\ UNCHANGED <<key_file, secrets_file, clock, hist, proc, api>>

\* The commands on a store whose configuration is edited.
ConfigNext ==
    \/ CmdInit({CHOOSE k \in generate_master_key : TRUE}, {"standard", "enhanced"},
               {CHOOSE s \in generate_salt : TRUE})
    \/ CmdAdd({CHOOSE v \in Values : TRUE}, {CHOOSE n \in urandom(NONCE_SIZE) : TRUE})
    \/ DoGet
    \/ DoLs
    \/ DoRm
    \/ DoExport
    \/ DoInfo
    \/ StoreMetadata
    \/ EnvEditTier
    \/ EnvEditSalt
    \/ EnvShortenKeyFile

ConfigSpec == Init /\ [][ConfigNext]_vars

(***************************************************************************)
(* A program that calls crypto.py directly, as tests/test_crypto.py does:  *)
(* derive_key, the constructor, encrypt and decrypt, on arguments of every *)
(* kind, and with the sealed text altered between encrypt and decrypt.     *)
(***************************************************************************)
\* Byte strings that are not KEY_SIZE long.
WrongLengthKeys ==
    LET k == CHOOSE x \in generate_key : TRUE
    IN  {<<>>, SubSeq(k, 1, 16), SubSeq(k, 1, KEY_SIZE - 1), k \o <<0>>}

\* Tier names, the three of SECURITY_TIERS and others.
ApiTiers == SECURITY_TIERS \cup {"ultra", "STANDARD", ""}

\* Salts: none, of SALT_SIZE bytes, and of other lengths.
ApiSalts ==
    LET s == CHOOSE x \in generate_salt : TRUE
    IN  {None} \cup {Some(x) : x \in generate_salt}
        \cup {Some(<<>>), Some(SubSeq(s, 1, SALT_SIZE - 1)), Some(s \o <<0>>)}

\* Keys a ZeroEnvCrypto is built with: master keys and tier-derived keys.
ApiEngineKeys ==
    LET k == CHOOSE x \in generate_key : TRUE
        s == CHOOSE x \in generate_salt : TRUE
    IN  generate_key \cup {derive_key(k, t, Some(s)).key : t \in {"enhanced", "max"}}

\* U+DCFF, a lone surrogate: what a byte 0xFF of the command line becomes.
LoneSurrogate == 56575

\* Strings given to encrypt.
ApiStrings == Values \cup {<<LoneSurrogate>>}

\* The ASCII code of a character of base64 text, and back; a character
\* outside the alphabet is one b64decode skips, like a newline.
b64_ascii(c) ==
    CASE c < 26      -> 65 + c
      [] c < 52      -> 97 + (c - 26)
      [] c < 62      -> 48 + (c - 52)
      [] c = 62      -> 43
      [] c = 63      -> 47
      [] c = B64Pad  -> 61
      [] OTHER       -> 10

ascii_b64(a) ==
    CASE a >= 65 /\ a <= 90  -> a - 65
      [] a >= 97 /\ a <= 122 -> (a - 97) + 26
      [] a >= 48 /\ a <= 57  -> (a - 48) + 52
      [] a = 43              -> 62
      [] a = 47              -> 63
      [] a = 61              -> B64Pad
      [] OTHER               -> B64Newline

Pow2(b) == IF b = 0 THEN 1 ELSE IF b = 1 THEN 2 ELSE IF b = 2 THEN 4
           ELSE IF b = 3 THEN 8 ELSE IF b = 4 THEN 16 ELSE IF b = 5 THEN 32 ELSE 64

\* Bit b of character i of an ASCII text is flipped.
flip_text_bit(text, i, b) ==
    LET a == b64_ascii(text[i])
        f == IF (a \div Pow2(b)) % 2 = 1 THEN a - Pow2(b) ELSE a + Pow2(b)
    IN  [text EXCEPT ![i] = ascii_b64(f)]

\* ZeroEnvCrypto.derive_key(master_key, tier, salt)
ApiDerive ==
    \E master_key \in generate_key \cup WrongLengthKeys,
       tier \in ApiTiers, salt \in ApiSalts :
        \E r \in {derive_key(master_key, tier, salt)} :
            /\ api' = [api EXCEPT !.last =
                         [op |-> "derive_key", err |-> r.err,
                          master_key |-> master_key, tier |-> tier,
                          salt |-> salt, key |-> r.key]]
            /\ UNCHANGED <<key_file, secrets_file, clock, out, hist, proc>>

\* crypto = ZeroEnvCrypto(key)
ApiNew ==
    \E key \in ApiEngineKeys \cup WrongLengthKeys :
        \E r \in {ZeroEnvCrypto(key)} :
            /\ api' = [engine |-> IF r.err = "" THEN Some(r) ELSE None,
                       sealed |-> <<>>,
                       last |-> [op |-> "ZeroEnvCrypto", err |-> r.err,
                                 key |-> key]]
            /\ UNCHANGED <<key_file, secrets_file, clock, out, hist, proc>>

\* crypto.encrypt(plaintext); the program keeps the last two sealed values.
ApiEncrypt ==
    \E plaintext \in ApiStrings, nonce \in urandom(NONCE_SIZE) :
        /\ ~IsNone(api.engine)
        /\ \E r \in {encrypt(api.engine[1], plaintext, nonce)} :
            /\ api' = [api EXCEPT
                         !.sealed =
                            IF r.err # "" THEN @
                            ELSE <<[plaintext |-> plaintext, drawn |-> nonce,
                                    data |-> [ciphertext |-> r.ciphertext,
                                              nonce |-> r.nonce],
                                    orig |-> [ciphertext |-> r.ciphertext,
                                              nonce |-> r.nonce]]>>
                                 \o SubSeq(@, 1, IF Len(@) > 0 THEN 1 ELSE 0),
                         !.last = [op |-> "encrypt", err |-> r.err,
                                   plaintext |-> plaintext,
                                   data |-> [ciphertext |-> r.ciphertext,
                                             nonce |-> r.nonce]]]
            /\ UNCHANGED <<key_file, secrets_file, clock, out, hist, proc>>

\* One bit of the ciphertext text or of the nonce text of the sealed value
\* is flipped (bits 0..6: the text stays ASCII).
ApiAlter ==
    /\ Len(api.sealed) = 1
    /\ api.sealed[1].data = api.sealed[1].orig
    /\ \E field \in {"ciphertext", "nonce"}, b \in 0..6 :
        LET d == api.sealed[1].data
        IN  \E i \in 1..Len(IF field = "ciphertext" THEN d.ciphertext ELSE d.nonce) :
               /\ api' = [api EXCEPT
                            !.sealed[1].data =
                               IF field = "ciphertext"
                               THEN [d EXCEPT !.ciphertext = flip_text_bit(@, i, b)]
                               ELSE [d EXCEPT !.nonce = flip_text_bit(@, i, b)],
                            !.last = [op |-> "alter", err |-> ""]]
               /\ UNCHANGED <<key_file, secrets_file, clock, out, hist, proc>>

\* crypto.decrypt(encrypted_data) on one of the sealed values.
ApiDecrypt ==
    /\ ~IsNone(api.engine)
    /\ \E i \in 1..Len(api.sealed) :
        \E r \in {decrypt(api.engine[1], api.sealed[i].data)} :
            /\ api' = [api EXCEPT !.last =
                         [op |-> "decrypt", err |-> r.err, str |-> r.str,
                          box |-> api.sealed[i]]]
            /\ UNCHANGED <<key_file, secrets_file, clock, out, hist, proc>>

\* derive_key is a static method with no state: its calls alone.
DeriveNext == ApiDerive

DeriveSpec == Init /\ [][DeriveNext]_vars

CryptoNext ==
    \/ ApiNew
    \/ ApiEncrypt
    \/ ApiAlter
    \/ ApiDecrypt

CryptoSpec == Init /\ [][CryptoNext]_vars

(***************************************************************************)
(* The claims of the specification, each with a state that shows its case. *)
(***************************************************************************)
\* The record of n still opens: nothing altered it on disk, and the files
\* still give the encryption key it was sealed with.
Authentic(n) ==
    /\ hist[n][1].altered = {}
    /\ hist[n][1].sealed_with = load_encryption_key(key_file, secrets_file).key

Stored == {n \in Names : ~IsNone(hist[n])}

Range(seq) == {seq[i] : i \in 1..Len(seq)}

C2_InitFresh ==
    [][(out'.cmd = "init" /\ ~key_file.exists /\ ~secrets_file.exists)
          => /\ out'.status = "ok"
             /\ is_initialized(key_file', secrets_file')
             /\ load_master_key(key_file') = [err |-> "", key |-> out'.key]
             /\ load_secrets_file(secrets_file').err = ""
             /\ secrets_file'.data.version = "1.0"
             /\ secrets_file'.data.secrets = <<>>]_vars

C2_Witness ==
    /\ out.cmd = "init" /\ out.status = "ok" /\ out.tier = "max"
    /\ is_initialized(key_file, secrets_file)
    /\ load_master_key(key_file).key = out.key
    /\ secrets_file.data.secrets = <<>>

\* C3: while a command writes the record file, a command that reads it finds
\* the complete old document or the complete new one, never a partly
\* written one.
C3_NoTornRead ==
    ~(out.cmd \in {"get", "ls"} /\ out.err = "JSONDecodeError")

C5_GetReturnsLastAdded ==
    (out.cmd = "get" /\ is_initialized(key_file, secrets_file)) =>
        IF IsNone(hist[out.name])
        THEN out.status # "ok"
        ELSE out.status = "ok" /\ out.text = hist[out.name][1].value

C5_Witness ==
    /\ out.cmd = "get" /\ out.status = "ok" /\ out.text = <<233>>
    /\ Len(secrets_file.data.secrets) = 2
    /\ secrets_file.data.secrets[1].name = out.name

\* C6: rm NAME removes (remove_secret returns True) exactly when a record of
\* NAME was present, and then the record is gone and get NAME reports
\* NotFound; rm of an absent name returns False, raises nothing and leaves
\* the record file unchanged.
C6_Remove ==
    [][(out'.cmd = "rm" /\ out'.status \notin {"cancelled", "NotInitialized"})
          => LET present == dict_has(secrets_file.data.secrets, out'.name)
             IN  /\ out'.status = IF present THEN "ok" ELSE "NotFound"
                 /\ present =>
                      /\ ~dict_has(secrets_file'.data.secrets, out'.name)
                      /\ get(key_file', secrets_file', out'.name).out.status
                            = "NotFound"
                 /\ ~present => secrets_file' = secrets_file]_vars

C6_Witness ==
    /\ out.cmd = "rm" /\ out.status = "ok"
    /\ Len(secrets_file.data.secrets) = 1
    /\ ~dict_has(secrets_file.data.secrets, out.name)

C9_ListWithoutDecryption ==
    (out.cmd = "ls" /\ ~out.values /\ is_initialized(key_file, secrets_file))
        => /\ out.status = "ok"
           /\ Range(out.names) = Stored /\ Len(out.names) = Cardinality(Stored)
           /\ out.table = <<>>

C9_Witness ==
    /\ out.cmd = "ls" /\ ~out.values /\ out.status = "ok"
    /\ Len(out.names) = 2
    /\ \E n \in Stored : hist[n][1].altered # {}
    /\ \E n \in Stored :
          hist[n][1].sealed_with # load_encryption_key(key_file, secrets_file).key

\* C10: in a store of tier enhanced or max, a later process derives from the
\* key file and the persisted salt the same encryption key the adding process
\* sealed with, and its get prints the secret unchanged.
C10_ReopenRederives ==
    \A n \in Stored :
        (/\ is_initialized(key_file, secrets_file)
         /\ get_security_tier(secrets_file).tier \in {"enhanced", "max"})
            => /\ load_encryption_key(key_file, secrets_file)
                     = [err |-> "", key |-> hist[n][1].sealed_with]
               /\ \E o \in {get(key_file, secrets_file, n).out} :
                     o.status = "ok" /\ o.text = hist[n][1].value

C10_Witness ==
    /\ out.cmd = "get" /\ out.status = "ok"
    /\ get_security_tier(secrets_file).tier = "enhanced"
    /\ out.text = hist[out.name][1].value
    /\ hist[out.name][1].sealed_with # load_master_key(key_file).key

\* C14: derive_key under "enhanced" or "max" raises ValueError (the spec's
\* InvalidConfiguration) when the salt is missing or is not exactly SALT_SIZE
\* bytes long, and raises ValueError (the spec's UnknownTier) for every tier
\* name that is not one of the three; in both cases no key is returned.
C14_DeriveRejects ==
    api.last.op = "derive_key" =>
        LET l == api.last
        IN  /\ l.tier \in {"enhanced", "max"} /\ IsNone(l.salt)
                  => l.err = "ValueError: Salt required" /\ l.key = <<>>
            /\ l.tier \in {"enhanced", "max"} /\ ~IsNone(l.salt)
                  /\ Len(l.salt[1]) # SALT_SIZE
                  => l.err = "ValueError: Salt must be 16 bytes" /\ l.key = <<>>
            /\ l.tier \notin SECURITY_TIERS
                  => l.err = "ValueError: Invalid security tier" /\ l.key = <<>>

\* derive_key was called under "max" with a salt one byte short.
C14_Witness ==
    /\ api.last.op = "derive_key"
    /\ api.last.tier = "max"
    /\ ~IsNone(api.last.salt)
    /\ Len(api.last.salt[1]) = SALT_SIZE - 1
    /\ api.last.err # ""

\* C16: for one master key k of KEY_SIZE bytes and one salt, derive_key under
\* "enhanced" and under "max" return keys of KEY_SIZE bytes that differ from
\* each other and from k.
C16_DerivedKeysDiffer ==
    /\ api.last.op = "derive_key"
    /\ api.last.tier \in {"enhanced", "max"}
    /\ api.last.err = ""
    /\ Len(api.last.master_key) = KEY_SIZE
    => LET l == api.last
           other == IF l.tier = "enhanced" THEN "max" ELSE "enhanced"
       IN  \E o \in {derive_key(l.master_key, other, l.salt)} :
              /\ o.err = ""
              /\ Len(l.key) = KEY_SIZE /\ Len(o.key) = KEY_SIZE
              /\ l.key # o.key
              /\ l.key # l.master_key /\ o.key # l.master_key

\* derive_key returned a key under "max" for a master key of KEY_SIZE bytes.
C16_Witness ==
    /\ api.last.op = "derive_key"
    /\ api.last.tier = "max"
    /\ api.last.err = ""
    /\ api.last.master_key \in generate_key
    /\ Len(api.last.key) = KEY_SIZE

\* C17: a ZeroEnvCrypto is constructed only with a key of exactly KEY_SIZE
\* bytes; with any other key the constructor raises ValueError (the spec's
\* InvalidKeyLength) and there is no object to encrypt or decrypt with.
C17_EngineKeyLength ==
    /\ ~IsNone(api.engine) => Len(api.engine[1].key) = KEY_SIZE
    /\ api.last.op = "ZeroEnvCrypto" =>
          IF Len(api.last.key) = KEY_SIZE
          THEN api.last.err = "" /\ api.engine = Some([err |-> "", key |-> api.last.key])
          ELSE /\ api.last.err = "ValueError: Master key must be 32 bytes"
               /\ IsNone(api.engine)

\* The constructor was called with a key of 31 bytes and raised.
C17_Witness ==
    /\ api.last.op = "ZeroEnvCrypto"
    /\ Len(api.last.key) = KEY_SIZE - 1
    /\ api.last.err # ""
    /\ IsNone(api.engine)

\* The string has a code point UTF-8 cannot encode.
HasLoneSurrogate(s) == \E i \in 1..Len(s) : IsSurrogate(s[i])

\* C18 as the specification states it: for every string s and every key of
\* KEY_SIZE bytes, encrypt(s) succeeds and decrypt of its result returns s.
C18_RoundTripEveryString ==
    /\ api.last.op = "encrypt" =>
          /\ api.last.err = ""
          /\ decrypt(api.engine[1], api.last.data)
                = [err |-> "", str |-> api.last.plaintext]
    /\ api.last.op = "decrypt" /\ api.last.box.data = api.last.box.orig =>
          api.last.err = "" /\ api.last.str = api.last.box.plaintext

\* C18, amended: for every string s without a lone surrogate and every key of
\* KEY_SIZE bytes, master or tier-derived, encrypt(s) succeeds and decrypt of
\* its unaltered result returns exactly s; for a string with a lone surrogate
\* encrypt raises UnicodeEncodeError and seals nothing.
C18_RoundTrip ==
    /\ api.last.op = "encrypt" =>
          IF HasLoneSurrogate(api.last.plaintext)
          THEN api.last.err = "UnicodeEncodeError"
               /\ api.last.data = [ciphertext |-> <<>>, nonce |-> <<>>]
          ELSE /\ api.last.err = ""
               /\ decrypt(api.engine[1], api.last.data)
                     = [err |-> "", str |-> api.last.plaintext]
    /\ api.last.op = "decrypt" /\ api.last.box.data = api.last.box.orig =>
          api.last.err = "" /\ api.last.str = api.last.box.plaintext
    /\ \A i \in 1..Len(api.sealed) : ~HasLoneSurrogate(api.sealed[i].plaintext)

\* A string with a character outside ASCII, sealed under a tier-derived key,
\* was opened unaltered and came back.
C18_Witness ==
    /\ api.last.op = "decrypt"
    /\ api.last.err = ""
    /\ api.last.box.data = api.last.box.orig
    /\ api.last.str = api.last.box.plaintext
    /\ \E i \in 1..Len(api.last.str) : api.last.str[i] >= 128
    /\ ~IsNone(api.engine) /\ api.engine[1].key \notin generate_key

C20_AlteredNeverOpens ==
    /\ api.last.op = "decrypt"
    /\ api.last.box.data # api.last.box.orig
    => api.last.err # "" /\ api.last.str = <<>>

\* C20, what decrypt does guarantee on an altered value: it fails, or the
\* bytes the altered text decodes to are those of the original and the plaintext
\* returned is the one that was sealed.
C20_NeverAnAlteredPlaintext ==
    /\ api.last.op = "decrypt"
    /\ api.last.box.data # api.last.box.orig
    /\ api.last.err = ""
    => /\ api.last.str = api.last.box.plaintext
       /\ b64decode(api.last.box.data.ciphertext) = b64decode(api.last.box.orig.ciphertext)
       /\ b64decode(api.last.box.data.nonce) = b64decode(api.last.box.orig.nonce)

\* A store as a version without tiers left it: both files present, no
\* security_tier field, a master key of KEY_SIZE bytes, and every record
\* sealed under the master key.
LegacyStore ==
    /\ key_file.exists /\ secrets_file.exists /\ ~secrets_file.torn
    /\ IsNone(secrets_file.data.security_tier)
    /\ \E mk \in {load_master_key(key_file)} :
          /\ mk.err = "" /\ Len(mk.key) = KEY_SIZE
          /\ \A n \in Stored : /\ hist[n][1].sealed_with = mk.key
                                /\ hist[n][1].altered = {}

\* C11: on a record file with no security_tier field get_security_tier
\* returns "standard", load_encryption_key returns the master key itself, and
\* add, get, ls, rm, export and info succeed: add seals under the master key,
\* get returns the stored value, ls and export show every record.
C11_LegacyStoreIsStandard ==
    [][(LegacyStore /\ out'.cmd \in {"add", "get", "ls", "rm", "export", "info"})
       => \E mk \in {load_master_key(key_file).key} :
          /\ get_security_tier(secrets_file) = [err |-> "", tier |-> "standard"]
          /\ load_encryption_key(key_file, secrets_file) = [err |-> "", key |-> mk]
          /\ out'.err = ""
          /\ out'.status \in {"ok", "NotFound", "cancelled"}
          /\ out'.cmd = "add" =>
                /\ out'.status = "ok"
                /\ hist'[out'.name][1].sealed_with = mk
                /\ get_secret(secrets_file', ZeroEnvCrypto(mk), out'.name)
                      = [err |-> "", value |-> Some(hist'[out'.name][1].value)]
          /\ out'.cmd = "get" =>
                IF out'.name \in Stored
                THEN out'.status = "ok" /\ out'.text = hist[out'.name][1].value
                ELSE out'.status = "NotFound"
          /\ out'.cmd = "ls" =>
                /\ out'.status = "ok" /\ out'.tier = "standard"
                /\ Range(out'.names) = Stored
          /\ out'.cmd = "rm" /\ out'.status = "ok" =>
                ~dict_has(secrets_file'.data.secrets, out'.name)
          /\ out'.cmd = "export" =>
                out'.status = "ok" /\ Range(out'.names) = Stored
          /\ out'.cmd = "info" =>
                out'.status = "ok" /\ out'.tier = "standard"]_vars

\* get has returned a stored value from a record file without the field.
C11_Witness ==
    /\ secrets_file.exists /\ IsNone(secrets_file.data.security_tier)
    /\ out.cmd = "get" /\ out.status = "ok"
    /\ out.name \in Stored /\ out.text = hist[out.name][1].value
    /\ load_encryption_key(key_file, secrets_file).key
          = load_master_key(key_file).key

\* The error derive_key raises for the tier and salt the record file holds;
\* "" when they are consistent.
ConfigError(sf) ==
    LET tier == IF IsNone(sf.data.security_tier) THEN "standard"
                ELSE sf.data.security_tier[1]
        salt == sf.data.salt
    IN  IF tier \notin SECURITY_TIERS THEN "ValueError: Invalid security tier"
        ELSE IF tier = "standard" THEN ""
        ELSE IF IsNone(salt) \/ salt[1] = <<>> THEN "ValueError: Salt required"
        ELSE IF Len(string_to_key(salt[1]).bytes) # SALT_SIZE
        THEN "ValueError: Salt must be 16 bytes"
        ELSE ""

\* C12: on a store whose record file names a tier that is not one of the
\* three, or names "enhanced" or "max" with the salt missing, empty or not of
\* SALT_SIZE bytes, load_encryption_key raises ValueError (the spec's
\* UnknownTier / InvalidConfiguration) and returns no key, neither the master
\* key nor another; add, get, ls --values and export end with that error,
\* show nothing and leave the record file as it is.
C12_InconsistentStoreFails ==
    [][(/\ key_file.exists /\ secrets_file.exists /\ ~secrets_file.torn
        /\ load_master_key(key_file).err = ""
        /\ ConfigError(secrets_file) # "")
       => \E k \in {load_encryption_key(key_file, secrets_file)} :
          /\ k.err = ConfigError(secrets_file)
          /\ k.key = <<>>
          /\ (out'.cmd \in {"add", "get", "export"} \/ (out'.cmd = "ls" /\ out'.values))
                => /\ out'.status = "exception" /\ out'.err = k.err
                   /\ out'.text = <<>> /\ out'.table = <<>> /\ out'.names = <<>>
                   /\ secrets_file' = secrets_file /\ hist' = hist]_vars

\* get has failed on a store of tier "enhanced" whose salt is one byte short,
\* for a name that is stored.
C12_Witness ==
    /\ key_file.exists /\ secrets_file.exists
    /\ secrets_file.data.security_tier = Some("enhanced")
    /\ ConfigError(secrets_file) = "ValueError: Salt must be 16 bytes"
    /\ out.cmd = "get" /\ out.status = "exception"
    /\ out.err = "ValueError: Salt must be 16 bytes"
    /\ out.name \in Stored

\* C13: a key file whose decoded content is not KEY_SIZE bytes long is a
\* fatal error for every tier: no cipher is built on a working key derived
\* from it, and add, get, ls --values and export end with an error and seal
\* or open nothing.
C13_WrongLengthMasterKeyIsFatal ==
    [][(/\ key_file.exists /\ secrets_file.exists /\ ~secrets_file.torn
        /\ load_master_key(key_file).err = ""
        /\ Len(load_master_key(key_file).key) # KEY_SIZE)
       => /\ load_crypto(key_file, secrets_file).err # ""
          /\ (out'.cmd \in {"add", "get", "export"} \/ (out'.cmd = "ls" /\ out'.values))
                => out'.status = "exception" /\ secrets_file' = secrets_file]_vars

\* C13 for the tier "standard" alone: with a key file of another length the
\* commands that seal or open end with the ValueError of the constructor,
\* and nothing is written.
C13_StandardRejectsAtConstruction ==
    [][(/\ key_file.exists /\ secrets_file.exists /\ ~secrets_file.torn
        /\ load_master_key(key_file).err = ""
        /\ Len(load_master_key(key_file).key) # KEY_SIZE
        /\ get_security_tier(secrets_file).tier = "standard"
        /\ (out'.cmd \in {"add", "get", "export"} \/ (out'.cmd = "ls" /\ out'.values)))
       => /\ out'.status = "exception"
          /\ out'.err = "ValueError: Master key must be 32 bytes"
          /\ secrets_file' = secrets_file]_vars

\* C15: derive_key under "standard" returns the master key unchanged,
\* whatever the salt is; so on a store initialized with tier "standard"
\* load_encryption_key returns the master key the key file holds, and that
\* is the key the records are sealed with.
C15_StandardKeyIsMasterKey ==
    /\ key_file.exists /\ secrets_file.exists
    /\ secrets_file.data.security_tier = Some("standard")
    => \E mk \in {load_master_key(key_file)} :
          /\ mk.err = "" /\ mk.key \in generate_master_key
          /\ load_encryption_key(key_file, secrets_file) = [err |-> "", key |-> mk.key]
          /\ \A salt \in {None} \cup {Some(x) : x \in generate_salt} :
                derive_key(mk.key, "standard", salt) = [err |-> "", key |-> mk.key]
          /\ \A n \in Stored : hist[n][1].sealed_with = mk.key

\* A store of tier "standard" holds a record and get has returned its value.
C15_Witness ==
    /\ key_file.exists /\ secrets_file.exists
    /\ secrets_file.data.security_tier = Some("standard")
    /\ out.cmd = "get" /\ out.status = "ok" /\ out.name \in Stored
    /\ hist[out.name][1].sealed_with = load_master_key(key_file).key

\* C21: in every record file that init and the later commands produce, the
\* tier is one of the three, a salt is stored exactly when the tier is not
\* "standard", and a stored salt decodes to exactly SALT_SIZE bytes, which
\* get_salt returns.
C21_SaltIffNotStandard ==
    secrets_file.exists =>
        LET d == secrets_file.data
        IN  /\ ~IsNone(d.security_tier)
            /\ d.security_tier[1] \in SECURITY_TIERS
            /\ IsNone(d.salt) <=> d.security_tier[1] = "standard"
            /\ ~IsNone(d.salt) =>
                  \E b \in {string_to_key(d.salt[1])} :
                     /\ b.err = "" /\ Len(b.bytes) = SALT_SIZE
                     /\ get_salt(secrets_file) = [err |-> "", salt |-> Some(b.bytes)]
            /\ IsNone(d.salt) => get_salt(secrets_file) = [err |-> "", salt |-> None]

\* A store of tier "max" holds a salt after an add and a remove.
C21_Witness ==
    /\ secrets_file.exists
    /\ secrets_file.data.security_tier = Some("max")
    /\ ~IsNone(secrets_file.data.salt)
    /\ out.cmd = "rm" /\ out.status = "ok"
    /\ Len(secrets_file.data.secrets) = 1

RecordsOf(secrets, name) == {i \in 1..Len(secrets) : secrets[i].name = name}

C24_LastWriterWins ==
    [][\A p \in Procs :
         (proc[p].pc = "writing" /\ proc'[p].pc = "idle")
            => secrets_file' = save_secrets_file(proc[p].doc)]_vars

\* C24, the part that holds: a write that ends leaves the writer's document,
\* whole and with nothing of the other writer's change in it, or a file that
\* is no document at all; and the change of the earlier writer is lost
\* whenever the later one had read before it was written.
C24_WholeDocumentOrNone ==
    [][\A p \in Procs :
         (proc[p].pc = "writing" /\ proc'[p].pc = "idle")
            => \/ secrets_file' = save_secrets_file(proc[p].doc)
               \/ /\ secrets_file'.torn
                  /\ load_secrets_file(secrets_file').err = "JSONDecodeError"
                  /\ json_len(proc[p].doc) < json_len(secrets_file.data)]_vars

\* C25: after any sequence of add and rm on an initialized store, ls (with
\* or without --values) shows exactly the names added and not removed since,
\* each once, and ls --values, export and run (get_all_secrets) give exactly
\* those names, each once, each with the value last added for it.
C25_ListAndGetAllMatchHistory ==
    (out.cmd \in {"ls", "export", "run"} /\ is_initialized(key_file, secrets_file))
        => /\ out.status = "ok"
           /\ Range(out.names) = Stored
           /\ Len(out.names) = Cardinality(Stored)
           /\ Range(list_secrets(secrets_file).names) = Stored
           /\ Len(list_secrets(secrets_file).names) = Cardinality(Stored)
           /\ (out.cmd \in {"export", "run"} \/ out.values) =>
                 /\ Len(out.table) = Cardinality(Stored)
                 /\ {out.table[i].name : i \in 1..Len(out.table)} = Stored
                 /\ \A i \in 1..Len(out.table) :
                       out.table[i].value = hist[out.table[i].name][1].value

\* export gave exactly one name, DB_URL, with the non-ASCII value last
\* added for it, on a store that holds one record.
C25_Witness ==
    /\ out.cmd = "export" /\ out.status = "ok"
    /\ Cardinality(Stored) = 1
    /\ Len(out.table) = 1
    /\ out.table[1].value = SampleValues[2]
    /\ out.table[1].name = "DB_URL"

\* C26: initialize with a tier name that is not "standard", "enhanced" or
\* "max" raises ValueError "Invalid security tier" and writes nothing: the
\* key file and the record file are as before, and a directory that was not
\* initialized is not initialized after it.
C26_InvalidTierWritesNothing ==
    [][(out'.cmd = "initialize" /\ out'.tier \notin SECURITY_TIERS)
       => /\ out'.status = "exception"
          /\ out'.err = "ValueError: Invalid security tier"
          /\ key_file' = key_file
          /\ secrets_file' = secrets_file
          /\ is_initialized(key_file', secrets_file')
                = is_initialized(key_file, secrets_file)]_vars

\* initialize with the tier "invalid" has failed on an empty directory,
\* which is still empty.
C26_Witness ==
    /\ out.cmd = "initialize" /\ out.tier = "invalid"
    /\ out.status = "exception"
    /\ ~key_file.exists /\ ~secrets_file.exists

\* C27: on a store driven by the commands alone (init, then add, get, ls,
\* rm, export, run), the cipher built from load_encryption_key on the
\* current key file, tier and salt exists, and every record in the record
\* file opens under it, to the value last added for its name.
C27_EveryRecordOpens ==
    is_initialized(key_file, secrets_file) =>
        \E crypto \in {load_crypto(key_file, secrets_file)} :
            /\ crypto.err = ""
            /\ \A i \in 1..Len(secrets_file.data.secrets) :
                  LET rec == secrets_file.data.secrets[i]
                  IN  /\ ~IsNone(hist[rec.name])
                      /\ decrypt(crypto, rec)
                            = [err |-> "", str |-> hist[rec.name][1].value]

\* A store of tier "max" holds two records, the second one written by the
\* last add, and the key they open under is not the master key.
C27_Witness ==
    /\ is_initialized(key_file, secrets_file)
    /\ secrets_file.data.security_tier = Some("max")
    /\ Len(secrets_file.data.secrets) = 2
    /\ out.cmd = "add" /\ out.status = "ok"
    /\ secrets_file.data.secrets[2].name = out.name
    /\ load_crypto(key_file, secrets_file).key # load_master_key(key_file).key
    /\ decrypt(load_crypto(key_file, secrets_file), secrets_file.data.secrets[1]).err = ""

\* The records of the names other than name, in their order.
OtherRecords(secrets, name) == SelectSeq(secrets, LAMBDA r : r.name # name)

\* C28: add NAME VALUE and rm NAME change only the record of NAME: every
\* other record (ciphertext, nonce, updated_at) and the version, created_at,
\* security_tier and salt of the document are the same before and after, and
\* the key file is not touched; a command that fails or is cancelled changes
\* nothing.
C28_FrameOfAddAndRemove ==
    [][(out'.cmd \in {"add", "rm"})
       => /\ key_file' = key_file
          /\ secrets_file'.exists = secrets_file.exists
          /\ secrets_file'.torn = secrets_file.torn
          /\ [secrets_file'.data EXCEPT !.secrets = <<>>]
                = [secrets_file.data EXCEPT !.secrets = <<>>]
          /\ OtherRecords(secrets_file'.data.secrets, out'.name)
                = OtherRecords(secrets_file.data.secrets, out'.name)
          /\ out'.status # "ok" => secrets_file' = secrets_file]_vars

\* After an add at a later time, the record written earlier for the other
\* name still carries its earlier time, and the document the time of init.
C28_Witness ==
    /\ out.cmd = "add" /\ out.status = "ok"
    /\ Len(secrets_file.data.secrets) = 2
    /\ secrets_file.data.secrets[2].name = out.name
    /\ secrets_file.data.created_at < secrets_file.data.secrets[1].updated_at
    /\ secrets_file.data.secrets[1].updated_at < secrets_file.data.secrets[2].updated_at

\* C29: the operations that read never write: after get, ls, ls --values,
\* export, info and get_secret_metadata, and so after the load_master_key,
\* get_security_tier, get_salt, load_encryption_key, get_secret,
\* list_secrets and get_all_secrets they call, the key file and the record
\* file are what they were, whether the operation succeeds, reports NotFound
\* or fails.
C29_ReadsNeverWrite ==
    [][(out'.cmd \in {"get", "ls", "export", "info", "get_secret_metadata"})
       => /\ key_file' = key_file
          /\ secrets_file' = secrets_file
          /\ hist' = hist]_vars

\* get has failed with InvalidTag on a stored record, and the record is
\* still in the file.
C29_Witness ==
    /\ out.cmd = "get" /\ out.status = "exception" /\ out.err = "InvalidTag"
    /\ out.name \in Stored
    /\ dict_has(secrets_file.data.secrets, out.name)

\* C30: initialize writes the key file before the record file; an init
\* interrupted between the two writes leaves is_initialized() false and a
\* later init is accepted and replaces the key file; and whenever no command
\* is running and is_initialized() is true, the record file is a complete
\* document that load_secrets_file reads.
C30_ReadyImpliesReadable ==
    /\ secrets_file.exists => key_file.exists
    /\ (\A p \in Procs : proc[p].pc = "idle")
          /\ is_initialized(key_file, secrets_file)
          => load_secrets_file(secrets_file).err = ""

\* C30, the part that holds: the record file never exists without the key
\* file; while only the key file exists is_initialized() is false and init
\* is accepted, and its first write puts the new key in the key file.
C30_KeyFileFirst ==
    [][/\ secrets_file'.exists => key_file'.exists
       /\ (key_file.exists /\ ~secrets_file.exists)
            => /\ ~is_initialized(key_file, secrets_file)
               /\ (proc[1].pc = "idle" /\ proc'[1].pc # "idle"
                     /\ proc'[1].out.cmd = "init")
                    => /\ proc'[1].pc = "init_key"
                       /\ proc'[1].key = write_text(key_to_string(proc'[1].out.key))
               /\ (proc[1].pc = "init_key" /\ proc'[1].pc = "loaded")
                    => key_file' = proc[1].key]_vars

\* An init was interrupted after it opened the record file for writing and
\* before it wrote the document: no command is running, both files exist,
\* and the record file cannot be read.
C30_Witness ==
    /\ \A p \in Procs : proc[p].pc = "idle"
    /\ out.cmd = "init" /\ out.status = "interrupted"
    /\ is_initialized(key_file, secrets_file)
    /\ load_secrets_file(secrets_file).err = "JSONDecodeError"
    /\ init(key_file, secrets_file, CHOOSE k \in generate_master_key : TRUE,
            "standard", CHOOSE s \in generate_salt : TRUE, clock).out.status
         = "AlreadyInitialized"

=============================================================================
